---- MODULE Spec2Model ----
(***************************************************************************)
(* A model of the RLzoo baselines that carry behaviour of their own:       *)
(*   - the vanilla policy gradient learner PG (algorithms/pg/pg.py): its   *)
(*     transition buffer, update, reward discounting/normalisation and the *)
(*     train/test loops of PG.learn;                                       *)
(*   - the TD3 configuration functions (algorithms/td3/default.py).        *)
(*                                                                         *)
(* Real numbers are exact rationals <<numerator, denominator>> kept in     *)
(* lowest terms with a positive denominator; the code computes the same    *)
(* expressions in floating point.  A value divided by a zero standard      *)
(* deviation is NaN, as numpy produces it (0/0 with a RuntimeWarning, no   *)
(* exception).  Python lists are sequences: index t of the code is index   *)
(* t+1 here.                                                               *)
(***************************************************************************)
EXTENDS Integers, Sequences, FiniteSets, TLC

VARIABLES
    \* ---- PG object (pg.py:40-53)
    buffer,            \* self.buffer: list of [s, a, r]
    weights,           \* self.model weights: number of gradient updates applied
    ckpt,              \* checkpoint file written by save(): <<weights saved>>, or NoCkpt
    \* ---- PG.learn: position, arguments and locals (pg.py:133-218)
    pc,
    mode, train_episodes, test_episodes, max_steps, save_interval, gamma,
    i_episode,         \* i_episode (train, 1-based) / eps (test, 0-based)
    step,              \* number of iterations of the inner loop entered so far
    observation, ep_rs_sum, done,
    running_reward,    \* Unbound until first assigned
    reward_buffer,
    \* ---- _discount_and_norm_rewards: argument, local and result (pg.py:102-117)
    reward_list, discounted_ep_rs, discounted_ep_rs_norm,
    \* ---- observation of the calls made (what the environment and the
    \*      framework see); not read by the program
    calls,             \* calls of the current episode, in order
    ep_log,            \* per env.step of the current training episode not yet
                       \* consumed by update: the observation the action was
                       \* chosen from, the action, the reward returned
    ep_done,           \* a step of the current episode returned done = True
    count,             \* calls made so far by the current learn(), by kind
    since_save,        \* env.step calls since training started or last saved
    saved_at,          \* the episodes the current learn() called save() after
    save_gap,          \* at the latest save(): the env.step calls made since
                       \* training started or since the save before
    plotted,           \* reward_buffer handed to plot_save_log, in call order
    \* ---- TD3 configuration functions (td3/default.py)
    td3_fn, td3_env, td3_default_seed,
    td3_result,        \* <<alg_params, learn_params>> returned, or <<>>
    td3_calls,         \* framework calls made by the configuration function
    td3_built,         \* number of framework objects built so far (fresh ids)
    td3_ncalls,        \* configuration calls made so far
    td3_prev,          \* the call before the latest: <<[fn, env, default_seed,
                       \* result]>>, or <<>>
    \* ---- DQN configuration functions (dqn/default.py)
    dqn_fn, dqn_env,
    dqn_passed,        \* per keyword: <<>> when not passed, <<v>> when passed as v
    dqn_result         \* <<dict(), params>> returned, or <<>>

pgvars == <<buffer, weights, ckpt, pc, mode, train_episodes, test_episodes,
            max_steps, save_interval, gamma, i_episode, step, observation,
            ep_rs_sum, done, running_reward, reward_buffer, calls, ep_log,
            count, since_save, saved_at, save_gap, plotted, ep_done>>
fnvars == <<reward_list, discounted_ep_rs, discounted_ep_rs_norm>>
td3vars == <<td3_fn, td3_env, td3_default_seed, td3_result, td3_calls, td3_built,
             td3_ncalls, td3_prev>>
dqnvars == <<dqn_fn, dqn_env, dqn_passed, dqn_result>>
cfgvars == <<td3vars, dqnvars>>
vars == <<pgvars, fnvars, cfgvars>>

----------------------------------------------------------------------------
(* Exact rational arithmetic.                                              *)

RECURSIVE GCD(_, _)
GCD(a, b) == IF b = 0 THEN a ELSE GCD(b, a % b)

Abs(x) == IF x < 0 THEN -x ELSE x

\* <<n, d>> with d # 0, brought to lowest terms with d > 0
Rat(n, d) ==
    LET g == GCD(Abs(n), Abs(d))
        s == IF d < 0 THEN -1 ELSE 1
    IN <<(s * n) \div g, (s * d) \div g>>

RInt(n) == <<n, 1>>
RAdd(a, b) ==
    LET g == GCD(a[2], b[2])
    IN Rat(a[1] * (b[2] \div g) + b[1] * (a[2] \div g), (a[2] \div g) * b[2])
RNeg(a) == <<-a[1], a[2]>>
RSub(a, b) == RAdd(a, RNeg(b))
RMul(a, b) ==
    LET g1 == GCD(Abs(a[1]), b[2])
        g2 == GCD(Abs(b[1]), a[2])
    IN Rat((a[1] \div g1) * (b[1] \div g2), (a[2] \div g2) * (b[2] \div g1))
RDivInt(a, n) == Rat(a[1], a[2] * n)
RIsZero(a) == a[1] = 0

RECURSIVE RSum(_)
RSum(s) == IF s = <<>> THEN RInt(0) ELSE RAdd(s[1], RSum(Tail(s)))

RECURSIVE RPow(_, _)
RPow(a, k) == IF k = 0 THEN RInt(1) ELSE RMul(a, RPow(a, k - 1))

----------------------------------------------------------------------------
(* PG._discount_and_norm_rewards (pg.py:102-117).                          *)

Finite == "finite"
NaN == "nan"
PosInf == "inf"
NegInf == "-inf"

\* the loop of pg.py:110-112, from index t down to the first element;
\* out is discounted_ep_rs
RECURSIVE DiscountLoop(_, _, _, _, _)
DiscountLoop(rl, g, t, running_add, out) ==
    IF t = 0 THEN out
    ELSE LET ra == RAdd(RMul(running_add, g), rl[t])
         IN DiscountLoop(rl, g, t - 1, ra, [out EXCEPT ![t] = ra])

\* the returns summed without the decay
DiscountRewardsNoDecay(rl, g) ==
    DiscountLoop(rl, RInt(1), Len(rl), RInt(0), [t \in 1..Len(rl) |-> RInt(0)])

\* pg.py:108-112: np.zeros_like(reward_list), running_add = 0, the loop
DiscountRewards(rl, g) ==
    DiscountLoop(rl, g, Len(rl), RInt(0), [t \in 1..Len(rl) |-> RInt(0)])

\* np.mean of a non-empty array
Mean(xs) == RDivInt(RSum(xs), Len(xs))

\* np.std(xs) squared: the mean of the squared deviations from np.mean(xs)
Variance(xs) ==
    LET m == Mean(xs)
        dev == [t \in 1..Len(xs) |-> RSub(xs[t], m)]
    IN Mean([t \in 1..Len(xs) |-> RMul(dev[t], dev[t])])

\* x / np.std(..) for one element x, where var is np.std(..) squared: the
\* quotient c / sqrt(var) is kept as its two parts; a zero divisor gives
\* numpy's nan (0/0) or signed inf
DivByStd(x, var) ==
    [kind |-> IF ~RIsZero(var) THEN Finite
              ELSE IF RIsZero(x) THEN NaN
              ELSE IF x[1] > 0 THEN PosInf ELSE NegInf,
     c |-> x, var |-> var]

\* pg.py:115-116
NormRewards(G) ==
    LET m == Mean(G)
        centred == [t \in 1..Len(G) |-> RSub(G[t], m)]
        var == Variance(centred)
    IN [t \in 1..Len(G) |-> DivByStd(centred[t], var)]

\* pg.py:102-117, for a non-empty reward_list
discount_and_norm_rewards(rl, g) == NormRewards(DiscountRewards(rl, g))

----------------------------------------------------------------------------
(* Bounds of the model and the values the environment may produce.         *)

MaxEpisodes == 2       \* train_episodes / test_episodes range over 0..MaxEpisodes
MaxSteps == 2          \* max_steps ranges over 0..MaxSteps
MaxInterval == 2       \* save_interval ranges over 0..MaxInterval
MaxLen == 3            \* reward lists of 1..MaxLen rewards for the function alone

Obs == {0, 1}          \* observations env.reset / env.step return
Actions == {2}         \* the action the policy network samples: learn only
                       \* passes it on, to env.step and to the buffer
Rewards == {0, 1}      \* rewards env.step returns

\* defaults of PG.learn's signature (pg.py:133-134)
DefaultTrainEpisodes == 300
DefaultTestEpisodes == 200
DefaultSaveInterval == 100
DefaultGamma == Rat(95, 100)

Unbound == <<>>        \* a local that was never assigned
NoCkpt == <<>>         \* no checkpoint file; a file holding weights w is <<w>>
EarlierWeights == -1   \* the weights in a checkpoint file an earlier process left
NoValue == "none"

NoCalls ==
    [reset |-> 0, update |-> 0, save |-> 0, load_ckpt |-> 0,
     plot_save_log |-> 0, except |-> 0]

Called(c, what) == [c EXCEPT ![what] = @ + 1]

----------------------------------------------------------------------------
(* The PG object (pg.py:35-131).                                           *)

\* PG.__init__ (pg.py:40-53) and the state before learn() is called
\* (a checkpoint file written by an earlier process may be on disk)
PGInit ==
    /\ buffer = <<>>
    /\ weights = 0
    /\ ckpt \in {NoCkpt, <<EarlierWeights>>}
    /\ pc = "idle"
    /\ mode = NoValue
    /\ train_episodes = 0 /\ test_episodes = 0 /\ max_steps = 0
    /\ save_interval = 0 /\ gamma = RInt(0)
    /\ i_episode = 0 /\ step = 0
    /\ observation = NoValue /\ ep_rs_sum = 0 /\ done = FALSE
    /\ running_reward = Unbound
    /\ reward_buffer = <<>>
    /\ calls = <<>> /\ ep_log = <<>> /\ count = NoCalls
    /\ since_save = 0 /\ saved_at = <<>> /\ save_gap = 0 /\ plotted = <<>>
    /\ ep_done = FALSE

FnIdle ==
    /\ reward_list = <<>>
    /\ discounted_ep_rs = <<>>
    /\ discounted_ep_rs_norm = <<>>

\* PG.store_transition (pg.py:71-79): np.array(r, np.float32) of an integer
\* reward is that number as a float
store_transition(buf, s, a, r) == Append(buf, [s |-> s, a |-> a, r |-> RInt(r)])

\* pg.py:87-88: the reward column of the buffer
BufferRewards(buf) == [t \in 1..Len(buf) |-> buf[t].r]

\* pg.py:99: update leaves a fresh empty list in self.buffer
UpdateKeepsBuffer(buf) == buf

UpdatedBuffer(buf) == <<>>

\* PG.save (pg.py:119-124): the checkpoint holds the current weights
save(w) == <<w>>

\* PG.load_ckpt (pg.py:126-131): the weights become those of the checkpoint;
\* with no checkpoint file the model keeps the weights it has
load_ckpt(w, file) == IF file = NoCkpt THEN w ELSE file[1]

----------------------------------------------------------------------------
(* PG.learn (pg.py:133-218).  seed is left at its default None, render at  *)
(* False.                                                                  *)

Gammas == {DefaultGamma}

\* the first episode takes the except branch (pg.py:180-181) whatever the
\* exception; here as if it were taken in every episode
RunningRewardAlwaysReset(rr, ep) == RInt(ep)

\* pg.py:178-181 and 209-212: running_reward is not bound before its first
\* assignment, so reading it raises UnboundLocalError, which the bare except
\* catches
RunningReward(rr, ep) ==
    IF rr = Unbound
    THEN RInt(ep)
    ELSE RAdd(RMul(rr, Rat(99, 100)), RMul(RInt(ep), Rat(1, 100)))

\* the inner loop without its break
InnerLoopIgnoresDone(d, st, ms) == st < ms

\* pg.py:164,175-176 and 201,207-208: another iteration of the inner loop
\* follows when the step just made was not done and range(max_steps) is not
\* exhausted; st is the number of iterations made
InnerLoopContinues(d, st, ms) == ~d /\ st < ms

\* the successor observation stored in place of the one acted on
TrainStoreSuccessor(buf, obs, obs_, a, r) == store_transition(buf, obs_, a, r)

\* pg.py:170: self.store_transition(observation, action, reward)
TrainStore(buf, obs, obs_, a, r) == store_transition(buf, obs, a, r)

\* the test of pg.py:190 as if the episodes were numbered from 0
SaveDueZeroBased(i, si) == (i - 1) % si = 0

\* pg.py:190: i_episode and i_episode % save_interval == 0, save_interval # 0
SaveDue(i, si) == i # 0 /\ i % si = 0

\* pg.py:159: range(1, train_episodes + 1) has another element after i
\* episodes; pg.py:198: range(test_episodes) likewise
MoreEpisodesOffByOne(i, n) == i < n + 1

MoreEpisodes(i, n) == i < n

\* learn(env, train_episodes=te, max_steps=ms, save_interval=si, mode='train',
\* gamma=g) on a new PG object: pg.py:155-157
LearnTrain(te, ms, si, g) ==
    /\ pc = "idle"
    /\ mode' = "train"
    /\ train_episodes' = te /\ test_episodes' = DefaultTestEpisodes
    /\ max_steps' = ms /\ save_interval' = si /\ gamma' = g
    /\ reward_buffer' = <<>>
    /\ i_episode' = 0
    /\ pc' = "train_loop"
    /\ UNCHANGED <<buffer, weights, ckpt, step, observation, ep_rs_sum, done,
                   running_reward, calls, ep_log, ep_done, count, since_save, saved_at, save_gap, plotted>>
    /\ UNCHANGED <<fnvars, cfgvars>>

\* pg.py:159-163: the next episode starts
TrainReset ==
    /\ pc = "train_loop"
    /\ MoreEpisodes(i_episode, train_episodes)
    /\ i_episode' = i_episode + 1
    /\ \E o \in Obs : observation' = o
    /\ ep_rs_sum' = 0
    /\ step' = 0
    /\ pc' = IF InnerLoopContinues(FALSE, 0, max_steps) THEN "train_step" ELSE "train_end"
    /\ calls' = <<"reset">>
    /\ ep_log' = <<>>
    /\ ep_done' = FALSE
    /\ count' = Called(count, "reset")
    /\ UNCHANGED <<buffer, weights, ckpt, mode, train_episodes, test_episodes,
                   max_steps, save_interval, gamma, done, running_reward,
                   reward_buffer, since_save, saved_at, save_gap, plotted>>
    /\ UNCHANGED <<fnvars, cfgvars>>

\* pg.py:164-176: one iteration of the inner loop
TrainStep ==
    /\ pc = "train_step"
    /\ \E a \in Actions, o_ \in Obs, r \in Rewards, d \in BOOLEAN :
        /\ buffer' = TrainStore(buffer, observation, o_, a, r)
        /\ ep_rs_sum' = ep_rs_sum + r
        /\ observation' = o_
        /\ done' = d
        /\ pc' = IF InnerLoopContinues(d, step + 1, max_steps)
                 THEN "train_step" ELSE "train_end"
        /\ ep_log' = Append(ep_log, [s |-> observation, a |-> a, r |-> r])
        /\ ep_done' = d
    /\ step' = step + 1
    /\ calls' = calls \o <<"choose_action", "step", "store_transition">>
    /\ since_save' = since_save + 1
    /\ UNCHANGED <<count, weights, ckpt, mode, train_episodes, test_episodes, max_steps,
                   save_interval, gamma, i_episode, running_reward, reward_buffer,
                   saved_at, save_gap, plotted>>
    /\ UNCHANGED <<fnvars, cfgvars>>

\* pg.py:178-186: the running reward and its log
TrainRunning ==
    /\ pc = "train_end"
    /\ running_reward' = RunningReward(running_reward, ep_rs_sum)
    /\ count' = IF running_reward = Unbound THEN Called(count, "except") ELSE count
    /\ reward_buffer' = Append(reward_buffer, running_reward')
    /\ pc' = "train_update"
    /\ UNCHANGED <<buffer, weights, ckpt, mode, train_episodes, test_episodes,
                   max_steps, save_interval, gamma, i_episode, step, observation,
                   ep_rs_sum, done, calls, ep_log, ep_done, since_save, saved_at, save_gap, plotted>>
    /\ UNCHANGED <<fnvars, cfgvars>>

\* pg.py:188 with PG.update (pg.py:81-100) on a non-empty buffer
TrainUpdate ==
    /\ pc = "train_update"
    /\ buffer # <<>>
    /\ reward_list' = BufferRewards(buffer)
    /\ discounted_ep_rs_norm' = discount_and_norm_rewards(BufferRewards(buffer), gamma)
    /\ discounted_ep_rs' = discounted_ep_rs_norm'
    /\ weights' = weights + 1
    /\ buffer' = UpdatedBuffer(buffer)
    /\ calls' = Append(calls, "update")
    /\ count' = Called(count, "update")
    /\ ep_log' = <<>>
    /\ pc' = "train_save"
    /\ UNCHANGED <<ckpt, mode, train_episodes, test_episodes, max_steps,
                   save_interval, gamma, i_episode, step, observation, ep_rs_sum,
                   done, running_reward, reward_buffer, ep_done, since_save, saved_at, save_gap, plotted>>
    /\ UNCHANGED cfgvars

\* pg.py:87 on an empty buffer: zip(*[]) yields nothing to unpack into
\* s, a, r and update raises ValueError, which learn does not catch
TrainUpdateRaises ==
    /\ pc = "train_update"
    /\ buffer = <<>>
    /\ calls' = Append(calls, "update")
    /\ count' = Called(count, "update")
    /\ pc' = "raised"
    /\ UNCHANGED <<buffer, weights, ckpt, mode, train_episodes, test_episodes,
                   max_steps, save_interval, gamma, i_episode, step, observation,
                   ep_rs_sum, done, running_reward, reward_buffer, ep_log, ep_done,
                   since_save, saved_at, save_gap, plotted>>
    /\ UNCHANGED <<fnvars, cfgvars>>

\* pg.py:190-191; the value update returned was dropped by pg.py:188
TrainSave ==
    /\ pc = "train_save"
    /\ save_interval # 0
    /\ IF SaveDue(i_episode, save_interval)
       THEN /\ ckpt' = save(weights)
            /\ calls' = Append(calls, "save")
            /\ count' = Called(count, "save")
            /\ saved_at' = Append(saved_at, i_episode)
            /\ save_gap' = since_save
            /\ since_save' = 0
       ELSE UNCHANGED <<ckpt, calls, count, saved_at, save_gap, since_save>>
    /\ pc' = "train_loop"
    /\ UNCHANGED <<buffer, weights, mode, train_episodes, test_episodes, max_steps,
                   save_interval, gamma, i_episode, step, observation, ep_rs_sum,
                   done, running_reward, reward_buffer, ep_log, ep_done, plotted>>
    /\ reward_list' = <<>> /\ discounted_ep_rs' = <<>> /\ discounted_ep_rs_norm' = <<>>
    /\ UNCHANGED cfgvars

\* pg.py:190 with save_interval = 0: i_episode % 0 raises ZeroDivisionError
TrainSaveRaises ==
    /\ pc = "train_save"
    /\ save_interval = 0
    /\ pc' = "raised"
    /\ UNCHANGED <<buffer, weights, ckpt, mode, train_episodes, test_episodes,
                   max_steps, save_interval, gamma, i_episode, step, observation,
                   ep_rs_sum, done, running_reward, reward_buffer, calls, ep_log, ep_done,
                   count, since_save, saved_at, save_gap, plotted>>
    /\ reward_list' = <<>> /\ discounted_ep_rs' = <<>> /\ discounted_ep_rs_norm' = <<>>
    /\ UNCHANGED cfgvars

\* pg.py:192: after the last episode
TrainPlot ==
    /\ pc = "train_loop"
    /\ ~MoreEpisodes(i_episode, train_episodes)
    /\ plotted' = Append(plotted, reward_buffer)
    /\ calls' = Append(calls, "plot_save_log")
    /\ count' = Called(count, "plot_save_log")
    /\ pc' = "returned"
    /\ UNCHANGED <<buffer, weights, ckpt, mode, train_episodes, test_episodes,
                   max_steps, save_interval, gamma, i_episode, step, observation,
                   ep_rs_sum, done, running_reward, reward_buffer, ep_log, ep_done, since_save, saved_at, save_gap>>
    /\ UNCHANGED <<fnvars, cfgvars>>

\* the test loop choosing its actions as the train loop does
SampledStepCalls == <<"choose_action", "step">>

\* pg.py:204-205: the calls of one iteration of the test loop
GreedyStepCalls == <<"choose_action_greedy", "step">>

\* learn(env, test_episodes=te, max_steps=ms, mode='test') on a new PG object
\* or, as the run script does, after learn(mode='train') returned:
\* pg.py:194-197.  The locals of the new call are fresh.
LearnTest(te, ms) ==
    /\ \/ pc = "idle"
       \/ pc = "returned" /\ mode = "train"
    /\ mode' = "test"
    /\ test_episodes' = te /\ train_episodes' = DefaultTrainEpisodes
    /\ max_steps' = ms /\ save_interval' = DefaultSaveInterval
    /\ gamma' = DefaultGamma
    /\ weights' = load_ckpt(weights, ckpt)
    /\ i_episode' = 0 /\ step' = 0
    /\ observation' = NoValue /\ ep_rs_sum' = 0 /\ done' = FALSE
    /\ running_reward' = Unbound
    /\ reward_buffer' = <<>>
    /\ calls' = <<"load_ckpt">>
    /\ ep_log' = <<>>
    /\ ep_done' = FALSE
    /\ count' = Called(NoCalls, "load_ckpt")
    /\ saved_at' = <<>> /\ since_save' = 0 /\ save_gap' = 0
    /\ plotted' = <<>>
    /\ pc' = "test_loop"
    /\ reward_list' = <<>> /\ discounted_ep_rs' = <<>> /\ discounted_ep_rs_norm' = <<>>
    /\ UNCHANGED <<buffer, ckpt>>
    /\ UNCHANGED cfgvars

\* pg.py:198-200
TestReset ==
    /\ pc = "test_loop"
    /\ MoreEpisodes(i_episode, test_episodes)
    /\ i_episode' = i_episode + 1
    /\ \E o \in Obs : observation' = o
    /\ ep_rs_sum' = 0
    /\ step' = 0
    /\ pc' = IF InnerLoopContinues(FALSE, 0, max_steps) THEN "test_step" ELSE "test_end"
    /\ calls' = <<"reset">>
    /\ ep_log' = <<>>
    /\ ep_done' = FALSE
    /\ count' = Called(count, "reset")
    /\ UNCHANGED <<buffer, weights, ckpt, mode, train_episodes, test_episodes,
                   max_steps, save_interval, gamma, done, running_reward,
                   reward_buffer, since_save, saved_at, save_gap, plotted>>
    /\ UNCHANGED <<fnvars, cfgvars>>

\* pg.py:201-208
TestStep ==
    /\ pc = "test_step"
    /\ \E a \in Actions, o_ \in Obs, r \in Rewards, d \in BOOLEAN :
        /\ ep_rs_sum' = ep_rs_sum + r
        /\ observation' = o_
        /\ done' = d
        /\ pc' = IF InnerLoopContinues(d, step + 1, max_steps)
                 THEN "test_step" ELSE "test_end"
        /\ ep_done' = d
    /\ step' = step + 1
    /\ calls' = calls \o GreedyStepCalls
    /\ UNCHANGED <<count, ep_log, buffer, weights, ckpt, mode, train_episodes, test_episodes,
                   max_steps, save_interval, gamma, i_episode, running_reward,
                   reward_buffer, since_save, saved_at, save_gap, plotted>>
    /\ UNCHANGED <<fnvars, cfgvars>>

\* pg.py:209-215
TestRunning ==
    /\ pc = "test_end"
    /\ running_reward' = RunningReward(running_reward, ep_rs_sum)
    /\ count' = IF running_reward = Unbound THEN Called(count, "except") ELSE count
    /\ pc' = "test_loop"
    /\ UNCHANGED <<buffer, weights, ckpt, mode, train_episodes, test_episodes,
                   max_steps, save_interval, gamma, i_episode, step, observation,
                   ep_rs_sum, done, reward_buffer, calls, ep_log, ep_done, since_save, saved_at, save_gap, plotted>>
    /\ UNCHANGED <<fnvars, cfgvars>>

\* pg.py:198: range(test_episodes) is exhausted and learn returns
TestReturn ==
    /\ pc = "test_loop"
    /\ ~MoreEpisodes(i_episode, test_episodes)
    /\ pc' = "returned"
    /\ UNCHANGED <<buffer, weights, ckpt, mode, train_episodes, test_episodes,
                   max_steps, save_interval, gamma, i_episode, step, observation,
                   ep_rs_sum, done, running_reward, reward_buffer, calls, ep_log, ep_done,
                   count, since_save, saved_at, save_gap, plotted>>
    /\ UNCHANGED <<fnvars, cfgvars>>

\* pg.py:217-218: any other mode prints a message and returns
LearnUnknown ==
    /\ pc = "idle"
    /\ mode' = "other"
    /\ pc' = "returned"
    /\ UNCHANGED <<buffer, weights, ckpt, train_episodes, test_episodes,
                   max_steps, save_interval, gamma, i_episode, step, observation,
                   ep_rs_sum, done, running_reward, reward_buffer, calls, ep_log, ep_done,
                   count, since_save, saved_at, save_gap, plotted>>
    /\ UNCHANGED <<fnvars, cfgvars>>

TD3Idle ==
    /\ td3_fn = NoValue /\ td3_env = NoValue /\ td3_default_seed = FALSE
    /\ td3_result = <<>> /\ td3_calls = <<>> /\ td3_built = 0
    /\ td3_ncalls = 0 /\ td3_prev = <<>>

DQNIdle ==
    /\ dqn_fn = NoValue /\ dqn_env = NoValue /\ dqn_passed = <<>> /\ dqn_result = <<>>

Init == PGInit /\ FnIdle /\ TD3Idle /\ DQNIdle

Next ==
    \/ \E te \in 0..MaxEpisodes, ms \in 0..MaxSteps, si \in 0..MaxInterval, g \in Gammas :
          LearnTrain(te, ms, si, g)
    \/ TrainReset
    \/ TrainStep
    \/ TrainRunning
    \/ TrainUpdate
    \/ TrainUpdateRaises
    \/ TrainSave
    \/ TrainSaveRaises
    \/ TrainPlot
    \/ \E te \in 0..MaxEpisodes, ms \in 0..MaxSteps : LearnTest(te, ms)
    \/ TestReset
    \/ TestStep
    \/ TestRunning
    \/ TestReturn
    \/ LearnUnknown

Spec == Init /\ [][Next]_vars

\* learn is a sequential loop: a step that can be taken is taken
FairSpec == Spec /\ WF_vars(Next)

----------------------------------------------------------------------------
(* _discount_and_norm_rewards on its own, for every reward list of 1 to    *)
(* MaxLen rewards and every decay below.                                   *)

FnRewards == {-1, 0, 1, 2}
FnGammas == {RInt(0), Rat(1, 2), Rat(3, 4), RInt(1)}

RewardLists == UNION {[1..n -> {RInt(r) : r \in FnRewards}] : n \in 1..MaxLen}

FnInit ==
    /\ buffer = <<>> /\ weights = 0 /\ ckpt = NoCkpt
    /\ pc = "fn_call"
    /\ mode = NoValue
    /\ train_episodes = 0 /\ test_episodes = 0 /\ max_steps = 0
    /\ save_interval = 0
    /\ gamma \in FnGammas
    /\ i_episode = 0 /\ step = 0
    /\ observation = NoValue /\ ep_rs_sum = 0 /\ done = FALSE
    /\ running_reward = Unbound
    /\ reward_buffer = <<>>
    /\ calls = <<>> /\ ep_log = <<>> /\ count = NoCalls
    /\ since_save = 0 /\ saved_at = <<>> /\ save_gap = 0 /\ plotted = <<>>
    /\ ep_done = FALSE
    /\ reward_list \in RewardLists
    /\ discounted_ep_rs = <<>>
    /\ discounted_ep_rs_norm = <<>>
    /\ TD3Idle /\ DQNIdle

\* pg.py:107-112
FnDiscount ==
    /\ pc = "fn_call"
    /\ discounted_ep_rs' = DiscountRewards(reward_list, gamma)
    /\ pc' = "fn_norm"
    /\ UNCHANGED <<buffer, weights, ckpt, mode, train_episodes, test_episodes,
                   max_steps, save_interval, gamma, i_episode, step, observation,
                   ep_rs_sum, done, running_reward, reward_buffer, calls, ep_log,
                   ep_done, count, since_save, saved_at, save_gap, plotted>>
    /\ UNCHANGED <<reward_list, discounted_ep_rs_norm, cfgvars>>

\* pg.py:114-117: the array is normalised in place and returned
FnNormalize ==
    /\ pc = "fn_norm"
    /\ discounted_ep_rs' = NormRewards(discounted_ep_rs)
    /\ discounted_ep_rs_norm' = discounted_ep_rs'
    /\ pc' = "fn_done"
    /\ UNCHANGED <<buffer, weights, ckpt, mode, train_episodes, test_episodes,
                   max_steps, save_interval, gamma, i_episode, step, observation,
                   ep_rs_sum, done, running_reward, reward_buffer, calls, ep_log,
                   ep_done, count, since_save, saved_at, save_gap, plotted>>
    /\ UNCHANGED <<reward_list, cfgvars>>

FnNext == FnDiscount \/ FnNormalize

SpecDiscount == FnInit /\ [][FnNext]_vars

----------------------------------------------------------------------------
(* Properties of PG.update and PG.learn, checked under Spec.               *)

AfterUpdate == pc = "train_save"

\* C1: whenever PG.update returns normally, self.buffer is the empty list,
\* whatever number (>= 1) of transitions it held before the call (their
\* rewards are what the update read into reward_list).
C1_UpdateEmptiesBuffer ==
    AfterUpdate => (Len(reward_list) >= 1 /\ buffer = <<>>)

C1_Witness == AfterUpdate /\ Len(reward_list) = 2 /\ buffer = <<>> /\ i_episode = 2

\* the calls one inner-loop iteration of train mode makes, k times over
RECURSIVE StepCalls(_)
StepCalls(k) ==
    IF k = 0 THEN <<>>
    ELSE <<"choose_action", "step", "store_transition">> \o StepCalls(k - 1)

\* what the transition buffer must hold for the steps logged
Stored(log) == [t \in 1..Len(log) |-> [s |-> log[t].s, a |-> log[t].a, r |-> RInt(log[t].r)]]

InEpisode == pc \in {"train_step", "train_end", "train_update"}
EpisodeOver == pc \in {"train_save", "train_loop", "returned", "raised"}

\* C2: in train mode every episode is reset -> (choose_action -> env.step ->
\* store_transition)* -> update: one env.reset at its start, every env.step
\* followed by one store_transition of the observation the action was chosen
\* from, that action and the reward of that step, and one update, after the
\* last step and never between two steps.
C2_TrainEpisodeOrder ==
    (mode = "train" /\ i_episode >= 1) =>
        /\ count.reset = i_episode
        /\ InEpisode =>
            /\ calls = <<"reset">> \o StepCalls(step)
            /\ Len(ep_log) = step
            /\ buffer = Stored(ep_log)
            /\ count.update = i_episode - 1
        /\ EpisodeOver =>
            /\ \E tail \in {<<"update">>, <<"update", "save">>, <<"update", "plot_save_log">>,
                            <<"update", "save", "plot_save_log">>} :
                  calls = <<"reset">> \o StepCalls(step) \o tail
            /\ count.update = i_episode

C2_Witness ==
    /\ mode = "train" /\ AfterUpdate /\ i_episode = 2 /\ step = 2
    /\ reward_list = <<RInt(0), RInt(1)>>

\* rr * 0.99 + ep * 0.01
Smoothed(rr, ep) == RAdd(RMul(Rat(99, 100), rr), RMul(Rat(1, 100), RInt(ep)))

\* C5: within one call of learn (train or test) the except branch sets
\* running_reward to the reward sum of episode 1 and is never taken again:
\* after every later episode running_reward is 0.99 times its previous value
\* plus 0.01 times that episode's reward sum.
C5_RunningReward ==
    [][(pc \in {"train_end", "test_end"}) =>
         IF i_episode = 1
         THEN running_reward' = RInt(ep_rs_sum) /\ count'.except = 1
         ELSE /\ running_reward # Unbound
              /\ running_reward' = Smoothed(running_reward, ep_rs_sum)
              /\ count'.except = 1 /\ count.except = 1]_vars

C5_Witness ==
    /\ pc = "train_update" /\ i_episode = 2 /\ count.except = 1
    /\ Len(reward_buffer) = 2
    /\ reward_buffer[1] = RInt(2) /\ ep_rs_sum = 0
    /\ running_reward = Rat(198, 100)

\* C6: during learn in train mode the weights are saved each time
\* save_interval env.step calls have elapsed since the start of training or
\* the previous save: never more than save_interval steps go by without a
\* save, and every save comes save_interval steps after the one before.
C6_SaveEverySaveIntervalSteps ==
    (mode = "train" /\ save_interval >= 1) =>
        /\ since_save <= save_interval
        /\ saved_at # <<>> => save_gap = save_interval

\* env.step calls of the current episode
StepsMade == Cardinality({k \in DOMAIN calls : calls[k] = "step"})

\* C7: in train and test mode every episode makes at most max_steps env.step
\* calls, and makes none after a step of that episode returned done = True.
C7_StepsBoundedAndStopAtDone ==
    (mode \in {"train", "test"}) =>
        /\ StepsMade <= max_steps
        /\ StepsMade = step
        /\ pc \in {"train_step", "test_step"} => (~ep_done /\ step < max_steps)

C7_Witness ==
    /\ pc = "test_end" /\ ep_done /\ step = 1 /\ max_steps = 2 /\ i_episode = 2

\* the steps learn can still take before it returns, when every episode runs
\* to max_steps: a reset, max_steps steps, the running reward, the update and
\* the save of each episode left, and the final plot of train mode
PerEpisode == max_steps + 4
Remaining ==
    CASE pc = "train_loop"   -> (train_episodes - i_episode) * PerEpisode + 1
      [] pc = "train_step"   -> (train_episodes - i_episode) * PerEpisode + 1 + (max_steps - step) + 3
      [] pc = "train_end"    -> (train_episodes - i_episode) * PerEpisode + 1 + 3
      [] pc = "train_update" -> (train_episodes - i_episode) * PerEpisode + 1 + 2
      [] pc = "train_save"   -> (train_episodes - i_episode) * PerEpisode + 1 + 1
      [] pc = "test_loop"    -> (test_episodes - i_episode) * PerEpisode + 1
      [] pc = "test_step"    -> (test_episodes - i_episode) * PerEpisode + 1 + (max_steps - step) + 3
      [] pc = "test_end"     -> (test_episodes - i_episode) * PerEpisode + 1 + 3
      [] OTHER               -> 0

InLearn == pc \notin {"idle", "returned", "raised"}
Sound == max_steps >= 1 /\ save_interval >= 1

\* C8: with max_steps >= 1 and save_interval >= 1 learn terminates: it never
\* raises, and every step it takes before it has returned brings it strictly
\* closer to returning (Remaining is a natural number that decreases; the
\* loop is sequential, so a step is always taken).  Train mode resets and updates
\* exactly train_episodes times, logs one running reward per episode, and
\* calls plot_save_log exactly once, after the last episode, with the
\* train_episodes running rewards; test mode resets exactly test_episodes
\* times.
C8_LearnTerminatesWithCounts ==
    /\ []((mode \in {"train", "test"} /\ Sound) =>
            /\ pc # "raised"
            /\ Remaining >= 0
            /\ pc # "returned" => Remaining > 0)
    /\ [][(InLearn /\ Sound) => Remaining' < Remaining]_vars
    /\ []((mode = "train" /\ Sound) =>
            /\ Len(reward_buffer) = count.update + (IF pc = "train_update" THEN 1 ELSE 0)
            /\ count.plot_save_log = (IF pc = "returned" THEN 1 ELSE 0)
            /\ pc = "returned" =>
                /\ count.reset = train_episodes
                /\ count.update = train_episodes
                /\ Len(reward_buffer) = train_episodes
                /\ plotted = <<reward_buffer>>)
    /\ []((mode = "test" /\ Sound /\ pc = "returned") => count.reset = test_episodes)

C8_Witness ==
    /\ pc = "returned" /\ mode = "train" /\ train_episodes = 2 /\ max_steps = 2
    /\ save_interval = 1 /\ count.update = 2 /\ Len(plotted[1]) = 2

----------------------------------------------------------------------------
(* Properties of _discount_and_norm_rewards.                               *)

\* sum over k >= t of g^(k-t) * r[k]
DiscountedSum(r, g, t) ==
    RSum([k \in 1..(Len(r) - t + 1) |-> RMul(RPow(g, k - 1), r[t + k - 1])])

\* C3: before normalisation the function holds the reverse cumulative sum
\* with decay: for n >= 1 rewards, G[n] = r[n] and G[t] = r[t] + gamma *
\* G[t+1] for every earlier t, that is G[t] is the sum over k >= t of
\* gamma^(k-t) * r[k]; G is as long as the reward list.  (Checked under
\* SpecDiscount.)
C3_ReverseDiscountedSum ==
    pc = "fn_norm" =>
        LET n == Len(reward_list)
            G == discounted_ep_rs
        IN /\ Len(G) = n
           /\ G[n] = reward_list[n]
           /\ \A t \in 1..(n - 1) : G[t] = RAdd(reward_list[t], RMul(gamma, G[t + 1]))
           /\ \A t \in 1..n : G[t] = DiscountedSum(reward_list, gamma, t)

C3_Witness ==
    /\ pc = "fn_norm" /\ Len(reward_list) = 3 /\ gamma = Rat(1, 2)
    /\ reward_list = <<RInt(1), RInt(-1), RInt(2)>>
    /\ discounted_ep_rs = <<RInt(1), RInt(0), RInt(2)>>

\* mean and standard deviation of a sequence c[t] / sqrt(var)
MeanIsZero(xs) == RIsZero(RSum([t \in 1..Len(xs) |-> xs[t].c]))
StdIsOne(xs) ==
    \A t \in 1..Len(xs) : Variance([u \in 1..Len(xs) |-> xs[u].c]) = xs[t].var

\* C4: for every non-empty reward list, a one-step episode and an episode
\* of equal discounted returns included, the standard deviation the returns
\* are divided by is not zero, and the sequence update gets back has mean
\* zero and standard deviation one.
C4_NormalisedMeanZeroStdOne ==
    AfterUpdate =>
        /\ ~RIsZero(Variance(DiscountRewards(reward_list, gamma)))
        /\ \A t \in 1..Len(discounted_ep_rs_norm) : discounted_ep_rs_norm[t].kind = Finite
        /\ MeanIsZero(discounted_ep_rs_norm)
        /\ StdIsOne(discounted_ep_rs_norm)

----------------------------------------------------------------------------
(* The TD3 configuration functions (td3/default.py).  Each function is     *)
(* transcribed as the table of the literals its body holds; TD3Config      *)
(* runs the statements the six bodies share, in their order.  A Python     *)
(* dict is a function on its keys; a framework object is a record of its   *)
(* constructor arguments, the name scope it is built in, the variable it   *)
(* is bound to and a number that tells one object from another.            *)

MaxDim == 2            \* observation and action spaces of 1..MaxDim dimensions
MaxConfigCalls == 2    \* configuration calls made in one run

Envs == [observation_shape : {<<n>> : n \in 1..MaxDim},
         action_shape : {<<n>> : n \in 1..MaxDim}]

\* a table with a smaller replay buffer
SmallBufferTable ==
    [seed |-> 2,
     replay_buffer_capacity |-> 100000, policy_target_update_interval |-> 5,
     action_range |-> RInt(1),
     num_hidden_layer |-> 4, hidden_dim |-> 64,
     built |->
        <<[var |-> "q_net1", scope |-> <<"TD3", "Q_Net1">>, kind |-> "QNetwork"],
         [var |-> "q_net2", scope |-> <<"TD3", "Q_Net2">>, kind |-> "QNetwork"],
         [var |-> "target_q_net1", scope |-> <<"TD3", "Target_Q_Net1">>, kind |-> "QNetwork"],
         [var |-> "target_q_net2", scope |-> <<"TD3", "Target_Q_Net2">>, kind |-> "QNetwork"],
         [var |-> "policy_net", scope |-> <<"TD3", "Policy">>,
          kind |-> "DeterministicPolicyNetwork"],
         [var |-> "target_policy_net", scope |-> <<"TD3", "Target_Policy">>,
          kind |-> "DeterministicPolicyNetwork"]>>,
     net_list |-> <<"q_net1", "q_net2", "target_q_net1", "target_q_net2",
                    "policy_net", "target_policy_net">>,
     q_lr |-> Rat(3, 10000), policy_lr |-> Rat(3, 10000),
     optimizers |-> <<[var |-> "q_optimizer1", lr |-> "q_lr"],
                      [var |-> "q_optimizer2", lr |-> "q_lr"],
                      [var |-> "policy_optimizer", lr |-> "policy_lr"]>>,
     optimizers_list |-> <<"q_optimizer1", "q_optimizer2", "policy_optimizer">>,
     learn_params |->
        [max_steps |-> 150, batch_size |-> 64, explore_steps |-> 500,
         update_itr |-> 3, reward_scale |-> RInt(1),
         explore_noise_scale |-> RInt(1), eval_noise_scale |-> Rat(1, 2),
         train_episodes |-> 1000, test_episodes |-> 10, save_interval |-> 100]]

\* default.py:38-92
ClassicControlTable ==
    [seed |-> 2,
     replay_buffer_capacity |-> 500000, policy_target_update_interval |-> 5,
     action_range |-> RInt(1),
     num_hidden_layer |-> 4, hidden_dim |-> 64,
     built |->
        <<[var |-> "q_net1", scope |-> <<"TD3", "Q_Net1">>, kind |-> "QNetwork"],
         [var |-> "q_net2", scope |-> <<"TD3", "Q_Net2">>, kind |-> "QNetwork"],
         [var |-> "target_q_net1", scope |-> <<"TD3", "Target_Q_Net1">>, kind |-> "QNetwork"],
         [var |-> "target_q_net2", scope |-> <<"TD3", "Target_Q_Net2">>, kind |-> "QNetwork"],
         [var |-> "policy_net", scope |-> <<"TD3", "Policy">>,
          kind |-> "DeterministicPolicyNetwork"],
         [var |-> "target_policy_net", scope |-> <<"TD3", "Target_Policy">>,
          kind |-> "DeterministicPolicyNetwork"]>>,
     net_list |-> <<"q_net1", "q_net2", "target_q_net1", "target_q_net2",
                    "policy_net", "target_policy_net">>,
     q_lr |-> Rat(3, 10000), policy_lr |-> Rat(3, 10000),
     optimizers |-> <<[var |-> "q_optimizer1", lr |-> "q_lr"],
                      [var |-> "q_optimizer2", lr |-> "q_lr"],
                      [var |-> "policy_optimizer", lr |-> "policy_lr"]>>,
     optimizers_list |-> <<"q_optimizer1", "q_optimizer2", "policy_optimizer">>,
     learn_params |->
        [max_steps |-> 150, batch_size |-> 64, explore_steps |-> 500,
         update_itr |-> 3, reward_scale |-> RInt(1),
         explore_noise_scale |-> RInt(1), eval_noise_scale |-> Rat(1, 2),
         train_episodes |-> 1000, test_episodes |-> 10, save_interval |-> 100]]

\* default.py:94-148
Box2dTable ==
    [seed |-> 2,
     replay_buffer_capacity |-> 500000, policy_target_update_interval |-> 5,
     action_range |-> RInt(1),
     num_hidden_layer |-> 4, hidden_dim |-> 64,
     built |->
        <<[var |-> "q_net1", scope |-> <<"TD3", "Q_Net1">>, kind |-> "QNetwork"],
         [var |-> "q_net2", scope |-> <<"TD3", "Q_Net2">>, kind |-> "QNetwork"],
         [var |-> "target_q_net1", scope |-> <<"TD3", "Target_Q_Net1">>, kind |-> "QNetwork"],
         [var |-> "target_q_net2", scope |-> <<"TD3", "Target_Q_Net2">>, kind |-> "QNetwork"],
         [var |-> "policy_net", scope |-> <<"TD3", "Policy">>,
          kind |-> "DeterministicPolicyNetwork"],
         [var |-> "target_policy_net", scope |-> <<"TD3", "Target_Policy">>,
          kind |-> "DeterministicPolicyNetwork"]>>,
     net_list |-> <<"q_net1", "q_net2", "target_q_net1", "target_q_net2",
                    "policy_net", "target_policy_net">>,
     q_lr |-> Rat(3, 10000), policy_lr |-> Rat(3, 10000),
     optimizers |-> <<[var |-> "q_optimizer1", lr |-> "q_lr"],
                      [var |-> "q_optimizer2", lr |-> "q_lr"],
                      [var |-> "policy_optimizer", lr |-> "policy_lr"]>>,
     optimizers_list |-> <<"q_optimizer1", "q_optimizer2", "policy_optimizer">>,
     learn_params |->
        [max_steps |-> 150, batch_size |-> 64, explore_steps |-> 500,
         update_itr |-> 3, reward_scale |-> RInt(1),
         explore_noise_scale |-> RInt(1), eval_noise_scale |-> Rat(1, 2),
         train_episodes |-> 1000, test_episodes |-> 10, save_interval |-> 100]]

\* default.py:151-205
MujocoTable ==
    [seed |-> 2,
     replay_buffer_capacity |-> 500000, policy_target_update_interval |-> 5,
     action_range |-> RInt(1),
     num_hidden_layer |-> 4, hidden_dim |-> 64,
     built |->
        <<[var |-> "q_net1", scope |-> <<"TD3", "Q_Net1">>, kind |-> "QNetwork"],
         [var |-> "q_net2", scope |-> <<"TD3", "Q_Net2">>, kind |-> "QNetwork"],
         [var |-> "target_q_net1", scope |-> <<"TD3", "Target_Q_Net1">>, kind |-> "QNetwork"],
         [var |-> "target_q_net2", scope |-> <<"TD3", "Target_Q_Net2">>, kind |-> "QNetwork"],
         [var |-> "policy_net", scope |-> <<"TD3", "Policy">>,
          kind |-> "DeterministicPolicyNetwork"],
         [var |-> "target_policy_net", scope |-> <<"TD3", "Target_Policy">>,
          kind |-> "DeterministicPolicyNetwork"]>>,
     net_list |-> <<"q_net1", "q_net2", "target_q_net1", "target_q_net2",
                    "policy_net", "target_policy_net">>,
     q_lr |-> Rat(3, 10000), policy_lr |-> Rat(3, 10000),
     optimizers |-> <<[var |-> "q_optimizer1", lr |-> "q_lr"],
                      [var |-> "q_optimizer2", lr |-> "q_lr"],
                      [var |-> "policy_optimizer", lr |-> "policy_lr"]>>,
     optimizers_list |-> <<"q_optimizer1", "q_optimizer2", "policy_optimizer">>,
     learn_params |->
        [max_steps |-> 150, batch_size |-> 64, explore_steps |-> 500,
         update_itr |-> 3, reward_scale |-> RInt(1),
         explore_noise_scale |-> RInt(1), eval_noise_scale |-> Rat(1, 2),
         train_episodes |-> 1000, test_episodes |-> 10, save_interval |-> 100]]

\* default.py:210-264
RoboticsTable ==
    [seed |-> 2,
     replay_buffer_capacity |-> 500000, policy_target_update_interval |-> 5,
     action_range |-> RInt(1),
     num_hidden_layer |-> 4, hidden_dim |-> 64,
     built |->
        <<[var |-> "q_net1", scope |-> <<"TD3", "Q_Net1">>, kind |-> "QNetwork"],
         [var |-> "q_net2", scope |-> <<"TD3", "Q_Net2">>, kind |-> "QNetwork"],
         [var |-> "target_q_net1", scope |-> <<"TD3", "Target_Q_Net1">>, kind |-> "QNetwork"],
         [var |-> "target_q_net2", scope |-> <<"TD3", "Target_Q_Net2">>, kind |-> "QNetwork"],
         [var |-> "policy_net", scope |-> <<"TD3", "Policy">>,
          kind |-> "DeterministicPolicyNetwork"],
         [var |-> "target_policy_net", scope |-> <<"TD3", "Target_Policy">>,
          kind |-> "DeterministicPolicyNetwork"]>>,
     net_list |-> <<"q_net1", "q_net2", "target_q_net1", "target_q_net2",
                    "policy_net", "target_policy_net">>,
     q_lr |-> Rat(3, 10000), policy_lr |-> Rat(3, 10000),
     optimizers |-> <<[var |-> "q_optimizer1", lr |-> "q_lr"],
                      [var |-> "q_optimizer2", lr |-> "q_lr"],
                      [var |-> "policy_optimizer", lr |-> "policy_lr"]>>,
     optimizers_list |-> <<"q_optimizer1", "q_optimizer2", "policy_optimizer">>,
     learn_params |->
        [max_steps |-> 150, batch_size |-> 64, explore_steps |-> 500,
         update_itr |-> 3, reward_scale |-> RInt(1),
         explore_noise_scale |-> RInt(1), eval_noise_scale |-> Rat(1, 2),
         train_episodes |-> 1000, test_episodes |-> 10, save_interval |-> 100]]

\* default.py:266-320
DmControlTable ==
    [seed |-> 2,
     replay_buffer_capacity |-> 500000, policy_target_update_interval |-> 5,
     action_range |-> RInt(1),
     num_hidden_layer |-> 4, hidden_dim |-> 64,
     built |->
        <<[var |-> "q_net1", scope |-> <<"TD3", "Q_Net1">>, kind |-> "QNetwork"],
         [var |-> "q_net2", scope |-> <<"TD3", "Q_Net2">>, kind |-> "QNetwork"],
         [var |-> "target_q_net1", scope |-> <<"TD3", "Target_Q_Net1">>, kind |-> "QNetwork"],
         [var |-> "target_q_net2", scope |-> <<"TD3", "Target_Q_Net2">>, kind |-> "QNetwork"],
         [var |-> "policy_net", scope |-> <<"TD3", "Policy">>,
          kind |-> "DeterministicPolicyNetwork"],
         [var |-> "target_policy_net", scope |-> <<"TD3", "Target_Policy">>,
          kind |-> "DeterministicPolicyNetwork"]>>,
     net_list |-> <<"q_net1", "q_net2", "target_q_net1", "target_q_net2",
                    "policy_net", "target_policy_net">>,
     q_lr |-> Rat(3, 10000), policy_lr |-> Rat(3, 10000),
     optimizers |-> <<[var |-> "q_optimizer1", lr |-> "q_lr"],
                      [var |-> "q_optimizer2", lr |-> "q_lr"],
                      [var |-> "policy_optimizer", lr |-> "policy_lr"]>>,
     optimizers_list |-> <<"q_optimizer1", "q_optimizer2", "policy_optimizer">>,
     learn_params |->
        [max_steps |-> 150, batch_size |-> 64, explore_steps |-> 500,
         update_itr |-> 3, reward_scale |-> RInt(1),
         explore_noise_scale |-> RInt(1), eval_noise_scale |-> Rat(1, 2),
         train_episodes |-> 1000, test_episodes |-> 10, save_interval |-> 100]]

\* default.py:323-377
RlbenchTable ==
    [seed |-> 2,
     replay_buffer_capacity |-> 500000, policy_target_update_interval |-> 5,
     action_range |-> Rat(1, 10),
     num_hidden_layer |-> 4, hidden_dim |-> 64,
     built |->
        <<[var |-> "q_net1", scope |-> <<"TD3", "Q_Net1">>, kind |-> "QNetwork"],
         [var |-> "q_net2", scope |-> <<"TD3", "Q_Net2">>, kind |-> "QNetwork"],
         [var |-> "target_q_net1", scope |-> <<"TD3", "Target_Q_Net1">>, kind |-> "QNetwork"],
         [var |-> "target_q_net2", scope |-> <<"TD3", "Target_Q_Net2">>, kind |-> "QNetwork"],
         [var |-> "policy_net", scope |-> <<"TD3", "Policy">>,
          kind |-> "DeterministicPolicyNetwork"],
         [var |-> "target_policy_net", scope |-> <<"TD3", "Target_Policy">>,
          kind |-> "DeterministicPolicyNetwork"]>>,
     net_list |-> <<"q_net1", "q_net2", "target_q_net1", "target_q_net2",
                    "policy_net", "target_policy_net">>,
     q_lr |-> Rat(3, 10000), policy_lr |-> Rat(3, 10000),
     optimizers |-> <<[var |-> "q_optimizer1", lr |-> "q_lr"],
                      [var |-> "q_optimizer2", lr |-> "q_lr"],
                      [var |-> "policy_optimizer", lr |-> "policy_lr"]>>,
     optimizers_list |-> <<"q_optimizer1", "q_optimizer2", "policy_optimizer">>,
     learn_params |->
        [max_steps |-> 150, batch_size |-> 64, explore_steps |-> 500,
         update_itr |-> 3, reward_scale |-> RInt(1),
         explore_noise_scale |-> RInt(1), eval_noise_scale |-> Rat(1, 2),
         train_episodes |-> 1000, test_episodes |-> 10, save_interval |-> 100]]

TD3Functions ==
    {"classic_control", "box2d", "mujoco", "robotics", "dm_control", "rlbench"}

TD3Table(fn) ==
    CASE fn = "classic_control" -> ClassicControlTable
      [] fn = "box2d"           -> Box2dTable
      [] fn = "mujoco"          -> MujocoTable
      [] fn = "robotics"        -> RoboticsTable
      [] fn = "dm_control"      -> DmControlTable
      [] fn = "rlbench"         -> RlbenchTable

Range(f) == {f[x] : x \in DOMAIN f}

\* d[k] = v on a dict
DictSet(d, k, v) == [x \in DOMAIN d \cup {k} |-> IF x = k THEN v ELSE d[x]]

\* a guard that finds the entry although nothing stored it
GetFindsEntry(d, k) == FALSE

\* d.get(k) is None: the key is absent (none of these functions stores None)
GetIsNone(d, k) == k \notin DOMAIN d

\* the seed set only after the networks and optimizers are built
SeedLast(seeding, building) == building \o seeding

\* default.py:39-41 come before default.py:53-77
CallOrder(seeding, building) == seeding \o building

\* the body the six functions share (default.py:38-92 for classic_control),
\* with the literals of table t: the parameters returned and the framework
\* calls made, where built0 framework objects exist before the call
TD3Config(t, env, default_seed, built0) ==
    LET seeding ==
            IF default_seed
            THEN <<[fn |-> "set_seed", var |-> "", args |-> <<t.seed, env>>]>>
            ELSE <<>>
        alg0 == [state_dim |-> env.observation_shape[1],
                 action_dim |-> env.action_shape[1],
                 replay_buffer_capacity |-> t.replay_buffer_capacity,
                 policy_target_update_interval |-> t.policy_target_update_interval,
                 action_range |-> t.action_range]
        build_nets == GetIsNone(alg0, "net_list")
        hidden_dim_list == [i \in 1..t.num_hidden_layer |-> t.hidden_dim]
        nets == IF build_nets
                THEN [i \in 1..Len(t.built) |->
                        [kind |-> t.built[i].kind, var |-> t.built[i].var,
                         scope |-> t.built[i].scope,
                         observation_space |-> env.observation_shape,
                         action_space |-> env.action_shape,
                         hidden_dim_list |-> hidden_dim_list,
                         id |-> built0 + i]]
                ELSE <<>>
        alg1 == IF build_nets
                THEN DictSet(alg0, "net_list",
                             [i \in 1..Len(t.net_list) |->
                                CHOOSE n \in Range(nets) : n.var = t.net_list[i]])
                ELSE alg0
        build_opts == GetIsNone(alg1, "optimizers_list")
        opts == IF build_opts
                THEN [i \in 1..Len(t.optimizers) |->
                        [kind |-> "Adam", var |-> t.optimizers[i].var,
                         lr |-> t[t.optimizers[i].lr],
                         id |-> built0 + Len(nets) + i]]
                ELSE <<>>
        alg2 == IF build_opts
                THEN DictSet(alg1, "optimizers_list",
                             [i \in 1..Len(t.optimizers_list) |->
                                CHOOSE o \in Range(opts) : o.var = t.optimizers_list[i]])
                ELSE alg1
        building == [i \in 1..(Len(nets) + Len(opts)) |->
                        IF i <= Len(nets)
                        THEN [fn |-> nets[i].kind, var |-> nets[i].var, args |-> <<>>]
                        ELSE [fn |-> "Adam", var |-> opts[i - Len(nets)].var, args |-> <<>>]]
    IN [alg_params |-> alg2, learn_params |-> t.learn_params,
        calls |-> CallOrder(seeding, building),
        built |-> built0 + Len(nets) + Len(opts)]

\* fn(env, default_seed) is called
TD3Call(fn, env, default_seed) ==
    /\ td3_ncalls < MaxConfigCalls
    /\ LET r == TD3Config(TD3Table(fn), env, default_seed, td3_built)
       IN /\ td3_result' = <<r.alg_params, r.learn_params>>
          /\ td3_calls' = r.calls
          /\ td3_built' = r.built
    /\ td3_fn' = fn /\ td3_env' = env /\ td3_default_seed' = default_seed
    /\ td3_ncalls' = td3_ncalls + 1
    /\ td3_prev' = IF td3_ncalls = 0 THEN <<>>
                   ELSE <<[fn |-> td3_fn, env |-> td3_env,
                           default_seed |-> td3_default_seed, result |-> td3_result,
                           built |-> td3_built]>>
    /\ UNCHANGED <<pgvars, fnvars, dqnvars>>

TD3Next ==
    \E fn \in TD3Functions, env \in Envs, default_seed \in BOOLEAN :
        TD3Call(fn, env, default_seed)

SpecTD3 == Init /\ [][TD3Next]_vars

----------------------------------------------------------------------------
(* Properties of the TD3 configuration functions, checked under SpecTD3.   *)

\* framework objects without what tells one from another
Structure(objs) ==
    [i \in 1..Len(objs) |-> [x \in (DOMAIN objs[i]) \ {"id"} |-> objs[i][x]]]

Scalars(alg) ==
    [k \in (DOMAIN alg) \ {"net_list", "optimizers_list", "action_range"} |-> alg[k]]

ExpectedActionRange(fn) == IF fn = "rlbench" THEN Rat(1, 10) ELSE RInt(1)

SameArguments ==
    /\ td3_prev # <<>>
    /\ td3_prev[1].env = td3_env
    /\ td3_prev[1].default_seed = td3_default_seed

\* C9: for the same env and default_seed any two of classic_control, box2d,
\* mujoco, robotics, dm_control and rlbench return identical learn_params,
\* identical state_dim, action_dim, replay_buffer_capacity and
\* policy_target_update_interval and network and optimizer lists of the same
\* structure; only action_range differs: 0.1 for rlbench, 1.0 for the others.
C9_TablesAgreeButActionRange ==
    SameArguments =>
        LET a == td3_prev[1].result[1]
            b == td3_result[1]
        IN /\ td3_prev[1].result[2] = td3_result[2]
           /\ DOMAIN a = DOMAIN b
           /\ DOMAIN Scalars(b) = {"state_dim", "action_dim", "replay_buffer_capacity",
                                   "policy_target_update_interval"}
           /\ Scalars(a) = Scalars(b)
           /\ Structure(a["net_list"]) = Structure(b["net_list"])
           /\ Structure(a["optimizers_list"]) = Structure(b["optimizers_list"])
           /\ a["action_range"] = ExpectedActionRange(td3_prev[1].fn)
           /\ b["action_range"] = ExpectedActionRange(td3_fn)

C9_Witness ==
    /\ SameArguments
    /\ td3_prev[1].fn = "box2d" /\ td3_fn = "rlbench"
    /\ td3_prev[1].result[1]["action_range"] # td3_result[1]["action_range"]

Vars(objs) == [i \in 1..Len(objs) |-> objs[i].var]
Ids(objs) == {objs[i].id : i \in 1..Len(objs)}
BuiltBefore == IF td3_prev = <<>> THEN 0 ELSE td3_prev[1].built

\* C10: every configuration function returns alg_params with exactly the
\* documented keys; net_list holds six networks built by this call, in the
\* order q_net1, q_net2, target_q_net1, target_q_net2, policy_net,
\* target_policy_net, and optimizers_list three optimizers in the order
\* q_optimizer1, q_optimizer2, policy_optimizer; set_seed(2, env) is called
\* before any network is built when default_seed is true and never when it
\* is false.
C10_AlgParamsComplete ==
    td3_ncalls >= 1 =>
        LET alg == td3_result[1]
        IN /\ DOMAIN alg = {"net_list", "optimizers_list", "state_dim", "action_dim",
                            "replay_buffer_capacity", "policy_target_update_interval",
                            "action_range"}
           /\ Vars(alg["net_list"]) = <<"q_net1", "q_net2", "target_q_net1", "target_q_net2",
                                        "policy_net", "target_policy_net">>
           /\ Vars(alg["optimizers_list"]) = <<"q_optimizer1", "q_optimizer2", "policy_optimizer">>
           /\ Cardinality(Ids(alg["net_list"]) \cup Ids(alg["optimizers_list"])) = 9
           /\ \A id \in Ids(alg["net_list"]) \cup Ids(alg["optimizers_list"]) : id > BuiltBefore
           /\ \A i \in 1..6 : \E k \in DOMAIN td3_calls :
                  /\ td3_calls[k].fn = alg["net_list"][i].kind
                  /\ td3_calls[k].var = alg["net_list"][i].var
           /\ IF td3_default_seed
              THEN /\ td3_calls[1] = [fn |-> "set_seed", var |-> "", args |-> <<2, td3_env>>]
                   /\ \A k \in 2..Len(td3_calls) : td3_calls[k].fn # "set_seed"
                   /\ Len(td3_calls) = 10
              ELSE /\ \A k \in DOMAIN td3_calls : td3_calls[k].fn # "set_seed"
                   /\ Len(td3_calls) = 9

C10_Witness ==
    /\ td3_ncalls = 2 /\ td3_fn = "mujoco" /\ td3_default_seed
    /\ td3_prev[1].default_seed = FALSE
    /\ Ids(td3_result[1]["net_list"]) = 10..15

----------------------------------------------------------------------------
(* The periodic save of PG.learn in train mode (pg.py:190-191).            *)

\* the episodes of the current train run that are over, their save included
EpisodesOver == IF pc \in {"train_loop", "returned"} THEN i_episode ELSE i_episode - 1

\* the 1-based indices up to k that save_interval divides, in order
SaveEpisodes(k, si) == SelectSeq([i \in 1..k |-> i], LAMBDA i : i % si = 0)

Saves(log) == {j \in DOMAIN log : log[j] = "save"}

----------------------------------------------------------------------------
(* The checkpoint a test run finds after a training run                    *)
(* (run_ac_test.py:51-64, pg.py:188-196).                                  *)

\* a train-mode learn of at least one episode has returned
TrainReturned ==
    /\ pc = "returned" /\ mode = "train"
    /\ train_episodes >= 1 /\ count.update = train_episodes

\* C13: when learn(mode='test') follows learn(mode='train') on the same
\* model, the checkpoint load_ckpt reads was written by a save() of that
\* training run and holds the weights the final episode's update produced:
\* once the train-mode learn has returned, the last saved checkpoint equals
\* the model's current weights.
C13_CheckpointHoldsFinalWeights ==
    TrainReturned => (ckpt # NoCkpt /\ count.save >= 1 /\ ckpt = <<weights>>)

----------------------------------------------------------------------------
(* PG.learn in test mode (pg.py:194-215).                                  *)

EntersTest == pc \in {"idle", "returned"} /\ pc' = "test_loop"
StaysInTest == mode = "test" /\ mode' = "test"
TestCallNames == {"load_ckpt", "reset", "choose_action_greedy", "step"}

\* C14: learn in test mode leaves the training state alone: load_ckpt is
\* called exactly once, before the first env.reset; every action is chosen
\* with choose_action_greedy; store_transition, update and save are never
\* called, so the buffer at return is the buffer at entry and the weights
\* change only through the single load.
C14_TestLeavesTrainingState ==
    /\ [](mode = "test" =>
            /\ count.load_ckpt = 1 /\ count.update = 0 /\ count.save = 0
            /\ \A j \in DOMAIN calls :
                  /\ calls[j] \in TestCallNames
                  /\ calls[j] = "load_ckpt" => (j = 1 /\ count.reset = 0)
            /\ count.reset = 0 => calls = <<"load_ckpt">>)
    /\ [][/\ EntersTest =>
               /\ buffer' = buffer /\ ckpt' = ckpt
               /\ ckpt # NoCkpt => weights' = ckpt[1]
          /\ StaysInTest =>
               /\ buffer' = buffer /\ ckpt' = ckpt /\ weights' = weights
               /\ count'.load_ckpt = count.load_ckpt]_vars

C14_Witness ==
    /\ mode = "test" /\ pc = "returned"
    /\ test_episodes = 2 /\ count.reset = 2 /\ count.load_ckpt = 1
    /\ ckpt = <<EarlierWeights>> /\ weights = EarlierWeights
    /\ calls = <<"reset", "choose_action_greedy", "step", "choose_action_greedy", "step">>

----------------------------------------------------------------------------
(* The DQN configuration functions atari and classic_control               *)
(* (dqn/default.py:7-58).  A dict is a function from its keys; a network   *)
(* or optimizer is a record whose kind says what it is, None included.     *)

None == [kind |-> "None"]
CallerNetwork == [kind |-> "caller_network"]
CallerOptimizer == [kind |-> "caller_optimizer"]

\* env.observation_space.shape and env.action_space.n
DQNEnvs == [observation_shape : {<<n>> : n \in 1..MaxDim}, n : 1..MaxDim]

\* the keyword arguments a caller passes: each either left out or passed
\* with one of these values; number_timesteps is a keyword neither function
\* has a default for
DQNPassed ==
    [batch_size : {<<>>, <<16>>, <<64>>},
     dueling : {<<>>, <<TRUE>>, <<FALSE>>},
     network : {<<>>, <<None>>, <<CallerNetwork>>},
     optimizer : {<<>>, <<None>>, <<CallerOptimizer>>},
     number_timesteps : {<<>>, <<1000>>}]

\* **kwargs: the dict of the keywords passed
Kwargs(passed) ==
    [k \in {x \in DOMAIN passed : passed[x] # <<>>} |-> passed[k][1]]

\* the defaults kept where the caller passed a value
DictSetDefaults(d, kw) ==
    [k \in DOMAIN d \cup DOMAIN kw |-> IF k \in DOMAIN d THEN d[k] ELSE kw[k]]

\* d.update(kw) (default.py:25, 53)
DictUpdate(d, kw) ==
    [k \in DOMAIN d \cup DOMAIN kw |-> IF k \in DOMAIN kw THEN kw[k] ELSE d[k]]

\* d without key k, as d.pop(k) leaves it (default.py:28, 55)
DictPop(d, k) == [x \in (DOMAIN d) \ {k} |-> d[x]]

\* the guard as a test of the key only
KeyIsAbsent(d, k) == k \notin DOMAIN d

\* d.get(k) is None (default.py:27, 29, 54, 56): no such key, or None stored
DictGetIsNone(d, k) == k \notin DOMAIN d \/ d[k] = None

\* atari (default.py:7-32)
atari(env, kwargs) ==
    LET in_dim == env.observation_shape
        act_dim == env.n
        params0 == DictUpdate(
            [batch_size |-> 32, double_q |-> TRUE, buffer_size |-> 10000,
             exploration_rate |-> Rat(1, 10), exploration_final_eps |-> Rat(1, 100),
             train_freq |-> 4, learning_starts |-> 10000,
             target_network_update_freq |-> 1000, gamma |-> Rat(99, 100),
             prioritized_replay |-> TRUE, prioritized_alpha |-> Rat(6, 10),
             prioritized_beta0 |-> Rat(4, 10), dueling |-> TRUE],
            kwargs)
        params1 ==
            IF DictGetIsNone(params0, "network")
            THEN DictSet(DictPop(params0, "dueling"), "network",
                         [kind |-> "CNNQNet", in_dim |-> in_dim, act_dim |-> act_dim,
                          dueling |-> params0["dueling"]])
            ELSE params0
        params2 ==
            IF DictGetIsNone(params1, "optimizer")
            THEN DictSet(params1, "optimizer",
                         [kind |-> "Adam", lr |-> Rat(1, 10000),
                          epsilon |-> Rat(1, 100000), clipnorm |-> <<10>>])
            ELSE params1
    IN <<[k \in {} |-> 0], params2>>

\* classic_control (default.py:35-58)
classic_control(env, kwargs) ==
    LET in_dim == env.observation_shape[1]
        act_dim == env.n
        params0 == DictUpdate(
            [batch_size |-> 32, double_q |-> TRUE, buffer_size |-> 1000,
             exploration_rate |-> Rat(2, 10), exploration_final_eps |-> Rat(1, 100),
             train_freq |-> 4, learning_starts |-> 200,
             target_network_update_freq |-> 50, gamma |-> Rat(99, 100),
             prioritized_replay |-> FALSE, prioritized_alpha |-> Rat(6, 10),
             prioritized_beta0 |-> Rat(4, 10), dueling |-> TRUE],
            kwargs)
        params1 ==
            IF DictGetIsNone(params0, "network")
            THEN DictSet(DictPop(params0, "dueling"), "network",
                         [kind |-> "MLPQNet", in_dim |-> in_dim, act_dim |-> act_dim,
                          dueling |-> params0["dueling"]])
            ELSE params0
        params2 ==
            IF DictGetIsNone(params1, "optimizer")
            THEN DictSet(params1, "optimizer",
                         [kind |-> "Adam", lr |-> Rat(5, 1000),
                          epsilon |-> Rat(1, 100000), clipnorm |-> <<>>])
            ELSE params1
    IN <<[k \in {} |-> 0], params2>>

DQNFunctions == {"atari", "classic_control"}

\* the inputs of one call: the function, the environment and the keywords
DQNInit ==
    /\ PGInit /\ ckpt = NoCkpt
    /\ FnIdle /\ TD3Idle
    /\ dqn_fn \in DQNFunctions
    /\ dqn_env \in DQNEnvs
    /\ dqn_passed \in DQNPassed
    /\ dqn_result = <<>>

\* dqn_fn(dqn_env, **kwargs) is called and returns
DQNCall ==
    /\ dqn_result = <<>>
    /\ dqn_result' = IF dqn_fn = "atari"
                     THEN atari(dqn_env, Kwargs(dqn_passed))
                     ELSE classic_control(dqn_env, Kwargs(dqn_passed))
    /\ UNCHANGED <<dqn_fn, dqn_env, dqn_passed, pgvars, fnvars, td3vars>>

DQNNext == DQNCall

SpecDQN == DQNInit /\ [][DQNNext]_vars

----------------------------------------------------------------------------
(* Properties of the DQN configuration functions, checked under SpecDQN.   *)

\* the defaults of the keys the default network does not consume
\* (default.py:10-23 and 38-51)
DQNDefaults(fn) ==
    IF fn = "atari"
    THEN [batch_size |-> 32, double_q |-> TRUE, buffer_size |-> 10000,
          exploration_rate |-> Rat(1, 10), exploration_final_eps |-> Rat(1, 100),
          train_freq |-> 4, learning_starts |-> 10000,
          target_network_update_freq |-> 1000, gamma |-> Rat(99, 100),
          prioritized_replay |-> TRUE, prioritized_alpha |-> Rat(6, 10),
          prioritized_beta0 |-> Rat(4, 10)]
    ELSE [batch_size |-> 32, double_q |-> TRUE, buffer_size |-> 1000,
          exploration_rate |-> Rat(2, 10), exploration_final_eps |-> Rat(1, 100),
          train_freq |-> 4, learning_starts |-> 200,
          target_network_update_freq |-> 50, gamma |-> Rat(99, 100),
          prioritized_replay |-> FALSE, prioritized_alpha |-> Rat(6, 10),
          prioritized_beta0 |-> Rat(4, 10)]

\* the network each function builds by default, for a dueling flag
DefaultNetwork(fn, env, dueling) ==
    IF fn = "atari"
    THEN [kind |-> "CNNQNet", in_dim |-> env.observation_shape, act_dim |-> env.n,
          dueling |-> dueling]
    ELSE [kind |-> "MLPQNet", in_dim |-> env.observation_shape[1], act_dim |-> env.n,
          dueling |-> dueling]

DefaultOptimizer(fn) ==
    IF fn = "atari"
    THEN [kind |-> "Adam", lr |-> Rat(1, 10000), epsilon |-> Rat(1, 100000),
          clipnorm |-> <<10>>]
    ELSE [kind |-> "Adam", lr |-> Rat(5, 1000), epsilon |-> Rat(1, 100000),
          clipnorm |-> <<>>]

Given(k) == dqn_passed[k] # <<>> /\ dqn_passed[k] # <<None>>

\* C11: atari and classic_control let the caller's keywords override the
\* defaults: the first element returned is an empty dict; every key but
\* dueling, network and optimizer holds the caller's value if passed and
\* the default otherwise; network and optimizer are never None: a caller's
\* value that is not None is returned as it is, a missing or None one is
\* replaced by the default, the default network being built with the
\* caller's dueling flag if passed and with True otherwise.
C11_KeywordsOverrideDefaults ==
    dqn_result # <<>> =>
        LET params == dqn_result[2]
            kw == Kwargs(dqn_passed)
            def == DQNDefaults(dqn_fn)
            plain == (DOMAIN def \cup DOMAIN kw) \ {"dueling", "network", "optimizer"}
            dueling == IF dqn_passed.dueling # <<>> THEN dqn_passed.dueling[1] ELSE TRUE
        IN /\ Len(dqn_result) = 2
           /\ DOMAIN dqn_result[1] = {}
           /\ (DOMAIN params) \ {"dueling", "network", "optimizer"} = plain
           /\ \A k \in plain :
                 params[k] = IF k \in DOMAIN kw THEN kw[k] ELSE def[k]
           /\ {"network", "optimizer"} \subseteq DOMAIN params
           /\ params["network"].kind # "None"
           /\ params["optimizer"].kind # "None"
           /\ params["network"] =
                 IF Given("network") THEN dqn_passed.network[1]
                 ELSE DefaultNetwork(dqn_fn, dqn_env, dueling)
           /\ params["optimizer"] =
                 IF Given("optimizer") THEN dqn_passed.optimizer[1]
                 ELSE DefaultOptimizer(dqn_fn)

C11_Witness ==
    /\ dqn_result # <<>> /\ dqn_fn = "atari"
    /\ dqn_passed.batch_size = <<64>> /\ dqn_passed.dueling = <<FALSE>>
    /\ dqn_passed.network = <<None>> /\ dqn_passed.optimizer = <<CallerOptimizer>>
    /\ dqn_passed.number_timesteps = <<1000>>
    /\ dqn_result[2]["batch_size"] = 64
    /\ dqn_result[2]["buffer_size"] = 10000
    /\ dqn_result[2]["number_timesteps"] = 1000
    /\ dqn_result[2]["network"].kind = "CNNQNet"
    /\ dqn_result[2]["network"].dueling = FALSE
    /\ dqn_result[2]["optimizer"] = CallerOptimizer

====
